---------------------------- MODULE Spec2Model ----------------------------
(***************************************************************************)
(* A model of AlphaLink2's inference.py: the chunk-size heuristic          *)
(* (automatic_chunk_size), the RDC Q-factor scorer (compute_q_factor, the  *)
(* closure defined inside main's loop), the best-sample comparison of the  *)
(* two strategies, and main's control flow with its file writes.           *)
(*                                                                         *)
(* Four specifications share the variables:                                *)
(*   Spec       main(args), one step per statement group                   *)
(*   SpecSel    lines 245-264 (compare and replace the best) applied to    *)
(*              sequences of per-iteration scores                          *)
(*   SpecQ      compute_q_factor applied to one coordinate array and one   *)
(*              RDC table, one step per row                                *)
(*   SpecChunk  automatic_chunk_size applied to growing sequence lengths   *)
(*              and shrinking memory budgets                               *)
(*                                                                         *)
(* Floats: a confidence is an integer number of 1/3000ths, so that the     *)
(* three decimals of a file name lose information; a Q-factor is a record  *)
(* of kind "fin", "inf" or "nan", a finite one carrying the exact rational *)
(* n/d of its SQUARE (q = sqrt(n/d); squaring keeps the order of           *)
(* non-negative numbers).                                                  *)
(***************************************************************************)
EXTENDS Integers, Sequences, FiniteSets, TLC

VARIABLES
    \* ---- main(args)
    pc,             \* position in main
    args,           \* the parsed command line and the files it names
    rdc_df,         \* the loaded RDC table, or None
    it,             \* loop variable of line 155 (-1 before the loop)
    seed,           \* line 150
    cur_seed,       \* lines 148, 156
    batch,          \* feature batch of the current (or last) iteration
    raw_out,        \* model output before normalisation
    out,            \* normalised output of the current iteration
    sat,            \* crosslink satisfaction printed at line 259
    best_out, best_iptm, best_q_score, best_seed,
    model_globals,  \* model.globals.chunk_size / block_size
    model_calls,    \* number of model(batch) invocations
    files,          \* structure files written, in order
    aux_files,      \* raw-output archives and JSON summaries written
    cur_protein,    \* result of the last protein.from_prediction
    plddts, ptms,   \* the two dicts dumped as JSON
    err,            \* the exception that ended the run, or None
    steps,          \* trace of the steps taken in the current iteration
    \* ---- the selection fold (SpecSel)
    scores,         \* per-iteration scores and whether each became the best
    q_score,        \* local q_score of line 245
    \* ---- compute_q_factor (SpecQ)
    q_pc, pred_coords, q_table, q_i, diffs, values, q_included, q_result,
    \* ---- automatic_chunk_size (SpecChunk)
    ck_in, ck_out, ck_prev

mainVars == <<pc, args, rdc_df, it, seed, cur_seed, batch, raw_out, out, sat,
              best_out, best_iptm, best_q_score, best_seed, model_globals,
              model_calls, files, aux_files, cur_protein, plddts, ptms, err, steps>>
selVars == <<scores, q_score>>
qVars == <<q_pc, pred_coords, q_table, q_i, diffs, values, q_included, q_result>>
ckVars == <<ck_in, ck_out, ck_prev>>
vars == <<mainVars, selVars, qVars, ckVars>>

\* Python's None, and a name not yet bound (best_q_score before line 249).
None == [tag |-> "None"]
Unbound == [tag |-> "unbound"]

-----------------------------------------------------------------------------
(* automatic_chunk_size, lines 34-61 *)

\* Bounds of the inputs drawn for SpecChunk.
MaxSeqLen == 5000
MaxMemSteps == 3
\* Memory budgets are drawn in steps of MemStep GB.
MemStep == 20

\* get_device_mem (lines 34-41): the CUDA device's memory in GB, or 40 on the
\* cpu / without CUDA.
DefaultMemGB == 40
get_device_mem(device) ==
    IF device.kind # "cpu" /\ device.cuda_available THEN device.total_memory_in_GB
    ELSE DefaultMemGB

\* floor(a * b / c) without forming a * b.
FloorMulDiv(a, b, c) == (a \div c) * b + ((a % c) * b) \div c

\* Largest t in lo..hi with t * t <= x.
RECURSIVE ISqrtIn(_, _, _)
ISqrtIn(x, lo, hi) ==
    IF lo >= hi THEN lo
    ELSE LET mid == (lo + hi + 1) \div 2
         IN  IF mid * mid <= x THEN ISqrtIn(x, mid, hi) ELSE ISqrtIn(x, lo, mid - 1)
ISqrt(x) == ISqrtIn(x, 0, 46340)

\* int(base * factor) of lines 45-55, where
\*   factor = sqrt(total_mem_in_GB / 40.0 * (0.55 * is_bf16 + 0.45)) * 0.95.
\* 0.55 * is_bf16 + 0.45 is 20/20 or 9/20 and 0.95^2 = 361/400, so
\*   (base * factor)^2 = base^2 * mem * p20 * 361 / (40 * 20 * 400)
\* and 40 * 20 * 400 = 512 * 625.  int() of a positive float is the floor, and
\* floor(sqrt(x)) = ISqrt(floor(x)).
IntScaled(base, total_mem_in_GB, is_bf16) ==
    LET p20 == IF is_bf16 THEN 20 ELSE 9
    IN  ISqrt(FloorMulDiv((base * base) \div 512, total_mem_in_GB * p20 * 361, 625))

\* A plausible slip: the 128 and 64 branches exchanged.
automatic_chunk_size_swapped(seq_len, device, is_bf16) ==
    LET total_mem_in_GB == get_device_mem(device)
    IN  IF seq_len < IntScaled(1024, total_mem_in_GB, is_bf16)
            THEN [chunk_size |-> 256, block_size |-> None]
        ELSE IF seq_len < IntScaled(2048, total_mem_in_GB, is_bf16)
            THEN [chunk_size |-> 64, block_size |-> None]
        ELSE IF seq_len < IntScaled(3072, total_mem_in_GB, is_bf16)
            THEN [chunk_size |-> 128, block_size |-> None]
        ELSE IF seq_len < IntScaled(4096, total_mem_in_GB, is_bf16)
            THEN [chunk_size |-> 32, block_size |-> [tag |-> "int", v |-> 512]]
        ELSE [chunk_size |-> 4, block_size |-> [tag |-> "int", v |-> 256]]

automatic_chunk_size(seq_len, device, is_bf16) ==
    LET total_mem_in_GB == get_device_mem(device)
    IN  IF seq_len < IntScaled(1024, total_mem_in_GB, is_bf16)
            THEN [chunk_size |-> 256, block_size |-> None]
        ELSE IF seq_len < IntScaled(2048, total_mem_in_GB, is_bf16)
            THEN [chunk_size |-> 128, block_size |-> None]
        ELSE IF seq_len < IntScaled(3072, total_mem_in_GB, is_bf16)
            THEN [chunk_size |-> 64, block_size |-> None]
        ELSE IF seq_len < IntScaled(4096, total_mem_in_GB, is_bf16)
            THEN [chunk_size |-> 32, block_size |-> [tag |-> "int", v |-> 512]]
        ELSE [chunk_size |-> 4, block_size |-> [tag |-> "int", v |-> 256]]

CpuDevice == [kind |-> "cpu", cuda_available |-> FALSE, total_memory_in_GB |-> 0]
CudaDevice(gb) == [kind |-> "cuda:0", cuda_available |-> TRUE, total_memory_in_GB |-> gb]
\* The default device "cuda:0" on a machine without CUDA.
NoCudaDevice == [kind |-> "cuda:0", cuda_available |-> FALSE, total_memory_in_GB |-> 0]
ChunkDevices ==
    {CpuDevice, NoCudaDevice} \cup {CudaDevice(k * MemStep) : k \in 1..MaxMemSteps}


InitChunkVars ==
    /\ ck_in \in [seq_len : {1}, device : ChunkDevices, is_bf16 : BOOLEAN]
    /\ ck_out = None
    /\ ck_prev = None
IdleChunkVars == ck_in = None /\ ck_out = None /\ ck_prev = None

\* One call of automatic_chunk_size on the drawn input.
CkCall ==
    /\ ck_in # None /\ ck_out = None
    /\ ck_out' = automatic_chunk_size(ck_in.seq_len, ck_in.device, ck_in.is_bf16)
    /\ UNCHANGED <<ck_in, ck_prev>>

\* The next input: the same device and precision, one residue longer.
CkLonger ==
    /\ ck_out # None
    /\ ck_in.seq_len < MaxSeqLen
    /\ ck_prev' = [in |-> ck_in, out |-> ck_out]
    /\ ck_in' = [ck_in EXCEPT !.seq_len = @ + 1]
    /\ ck_out' = None

\* The next input: the same length and precision, a device with MemStep GB less.
CkLessMem ==
    /\ ck_out # None
    /\ ck_in.device.cuda_available
    /\ ck_in.device.total_memory_in_GB > MemStep
    /\ ck_prev' = [in |-> ck_in, out |-> ck_out]
    /\ ck_in' = [ck_in EXCEPT !.device = CudaDevice(@.total_memory_in_GB - MemStep)]
    /\ ck_out' = None

-----------------------------------------------------------------------------
(* Floats of the Q-factor computation *)

RECURSIVE GCD(_, _)
GCD(a, b) == IF b = 0 THEN a ELSE GCD(b, a % b)
Abs(x) == IF x < 0 THEN -x ELSE x

NaN == [kind |-> "nan"]
Inf == [kind |-> "inf"]
\* The finite number n/d (d > 0), in lowest terms.
Fin(n, d) ==
    LET g == GCD(Abs(n), d)
    IN  IF g = 0 THEN [kind |-> "fin", n |-> 0, d |-> 1]
        ELSE [kind |-> "fin", n |-> n \div g, d |-> d \div g]

FSubInt(x, v) == IF x.kind = "nan" THEN NaN ELSE Fin(x.n - v * x.d, x.d)
FSquare(x) == IF x.kind = "nan" THEN NaN ELSE Fin(x.n * x.n, x.d * x.d)
FAdd(x, y) ==
    IF x.kind = "nan" \/ y.kind = "nan" THEN NaN
    ELSE Fin(x.n * y.d + y.n * x.d, x.d * y.d)
RECURSIVE FSumSquares(_)
FSumSquares(s) ==
    IF s = <<>> THEN Fin(0, 1) ELSE FAdd(FSquare(Head(s)), FSumSquares(Tail(s)))
\* np.mean(s**2) of a non-empty array.
FMeanSquares(s) ==
    LET t == FSumSquares(s)
    IN  IF t.kind = "nan" THEN NaN ELSE Fin(t.n, t.d * Len(s))

\* Python's a < b on floats: false whenever a NaN is involved.
FloatLess(a, b) ==
    IF a.kind = "nan" \/ b.kind = "nan" THEN FALSE
    ELSE IF a.kind = "inf" THEN FALSE
    ELSE IF b.kind = "inf" THEN TRUE
    ELSE a.n * b.d < b.n * a.d

-----------------------------------------------------------------------------
(* compute_q_factor, lines 219-243 *)

\* Bounds of the inputs drawn for SpecQ.
NumRes == 2
MaxRows == 2
MaxValue == 1

\* rc.atom_order: atom name -> column of the atom37 coordinate array.  Two of
\* its 37 heavy-atom names are kept; it holds no hydrogen, so "H" is absent.
atom_order == [a \in {"N", "CA"} |-> IF a = "N" THEN 0 ELSE 1]
AtomNames == {"N", "CA", "H"}

\* The residue field of a row as pandas delivers it: an integer, NaN for a
\* missing field, or the text of a field that is no number.
IntField(v) == [tag |-> "int", v |-> v]
NaNField == [tag |-> "nan"]
TextField == [tag |-> "str"]
ResidueFields ==
    {IntField(v) : v \in (0 - NumRes - 1)..(NumRes + 1)} \cup {NaNField, TextField}
Rows == [residue : ResidueFields, atom1 : {"N"}, atom2 : AtomNames, value : 0..MaxValue]
RECURSIVE SeqsUpTo(_, _)
SeqsUpTo(S, n) ==
    IF n = 0 THEN {<<>>}
    ELSE LET shorter == SeqsUpTo(S, n - 1)
         IN  shorter \cup {Append(t, x) : t \in {u \in shorter : Len(u) = n - 1}, x \in S}
\* The tables of at most n rows.
RdcTables(n) == SeqsUpTo(Rows, n)

Positions == {<<0, 0, 1>>, <<1, 0, 0>>}
\* final_atom_positions, [NumRes, atoms, 3]; "tensor" or "ndarray" is the type
\* of the object handed to compute_q_factor.
CoordArrays == [(0..(NumRes - 1)) \X {0, 1} -> Positions]
PredCoords == [kind : {"tensor", "ndarray"}, pos : CoordArrays]

\* Line 221: pred_coords.detach() exists on a torch tensor only.
DetachRaises(pred) == pred.kind # "tensor"

\* Line 225: int(row["residue"]) raises ValueError on NaN and on text.
IntRaises(field) == field.tag # "int"

\* numpy's coords_np[res_idx, ...] on an array of L residues: an index in
\* -L..-1 counts from the end, anything outside -L..L-1 raises IndexError.
IndexRaises(res_idx, L) == res_idx < 0 - L \/ res_idx >= L
WrapIndex(res_idx, L) == IF res_idx < 0 THEN res_idx + L ELSE res_idx

\* Lines 229-235, the body of the try: TRUE when it raises (and line 236
\* swallows the exception).
RowRaises(row, pred) ==
    \/ row.atom1 \notin DOMAIN atom_order
    \/ row.atom2 \notin DOMAIN atom_order
    \/ IndexRaises(row.residue.v - 1, NumRes)

\* Lines 231-233: pred_rdc = (vec[2] / norm(vec))^2; 0/0 is NaN in numpy.
PredRdc(row, pred) ==
    LET r == WrapIndex(row.residue.v - 1, NumRes)
        p1 == pred.pos[<<r, atom_order[row.atom1]>>]
        p2 == pred.pos[<<r, atom_order[row.atom2]>>]
        vec == [k \in 1..3 |-> p2[k] - p1[k]]
        norm2 == vec[1] * vec[1] + vec[2] * vec[2] + vec[3] * vec[3]
    IN  IF norm2 = 0 THEN NaN ELSE Fin(vec[3] * vec[3], norm2)

\* Lines 238-243.
QReduceValue(ds, vs) ==
    IF Len(vs) = 0 THEN Inf
    ELSE LET md == FMeanSquares(ds)
             mv == FMeanSquares(vs)
         IN  IF md.kind = "nan" THEN NaN
             ELSE IF mv.n = 0 THEN (IF md.n = 0 THEN NaN ELSE Inf)
             ELSE Fin(md.n * mv.d, md.d * mv.n)

InitQVars ==
    /\ q_pc = "detach"
    /\ pred_coords \in PredCoords
    /\ q_table \in RdcTables(MaxRows)
    /\ q_i = 0
    /\ diffs = <<>> /\ values = <<>> /\ q_included = <<>>
    /\ q_result = None
IdleQVars ==
    /\ q_pc = "idle" /\ pred_coords = None /\ q_table = <<>> /\ q_i = 0
    /\ diffs = <<>> /\ values = <<>> /\ q_included = <<>> /\ q_result = None

\* Line 221.
QDetach ==
    /\ q_pc = "detach"
    /\ \/ /\ DetachRaises(pred_coords)
          /\ q_pc' = "raised"
          /\ q_result' = [exc |-> "AttributeError", line |-> 221]
       \/ /\ ~DetachRaises(pred_coords)
          /\ q_pc' = "rows"
          /\ q_result' = q_result
    /\ UNCHANGED <<pred_coords, q_table, q_i, diffs, values, q_included>>

\* Lines 224-237, one pass of the for loop.
QRow ==
    /\ q_pc = "rows"
    /\ q_i < Len(q_table)
    /\ LET row == q_table[q_i + 1]
       IN  \/ /\ IntRaises(row.residue)
              /\ q_pc' = "raised"
              /\ q_result' = [exc |-> "ValueError", line |-> 225]
              /\ UNCHANGED <<q_i, diffs, values, q_included>>
           \/ /\ ~IntRaises(row.residue)
              /\ RowRaises(row, pred_coords)
              /\ q_i' = q_i + 1
              /\ UNCHANGED <<q_pc, q_result, diffs, values, q_included>>
           \/ /\ ~IntRaises(row.residue)
              /\ ~RowRaises(row, pred_coords)
              /\ diffs' = Append(diffs, FSubInt(PredRdc(row, pred_coords), row.value))
              /\ values' = Append(values, Fin(row.value, 1))
              /\ q_included' = Append(q_included, q_i + 1)
              /\ q_i' = q_i + 1
              /\ UNCHANGED <<q_pc, q_result>>
    /\ UNCHANGED <<pred_coords, q_table>>

\* Lines 238-243, after the last row.
QReduce ==
    /\ q_pc = "rows"
    /\ q_i = Len(q_table)
    /\ q_pc' = "returned"
    /\ q_result' = [q |-> QReduceValue(diffs, values)]
    /\ UNCHANGED <<pred_coords, q_table, q_i, diffs, values, q_included>>

-----------------------------------------------------------------------------
(* The comparison of lines 245-264 *)

\* Bounds of main's inputs.
MaxTimes == 3
MaxConf == 2
MaxXL == 1
MaxQ == 1
TargetSeqLen == 1000
\* --data_random_seed, line 379.
DataRandomSeed == 42

\* np.mean(out["iptm+ptm"]), in units of 1/3000.
Confs == 0..MaxConf
\* f"{iptm_str:.3f}": the nearest thousandth (c/3 is never halfway).
Format3(c) == (2 * c + 3) \div 6

\* hash((args.data_random_seed, seed)) % 100000, lines 148 and 156: kept as
\* the term it is computed from.
DerivedSeed(base, idx) == [base |-> base, idx |-> idx]

\* satisfied / total_xl of lines 257-259: torch's 0/0 is NaN.
SatRatio(satisfied, total_xl) ==
    IF total_xl = 0 THEN NaN ELSE Fin(satisfied, total_xl)

\* Plausible slips of line 261.
SelectCrosslink_worse(b, o, s) ==
    IF b.best_out = None \/ o.conf < b.best_iptm
    THEN [best_out |-> o, best_iptm |-> o.conf, best_seed |-> s]
    ELSE b
SelectCrosslink_geq(b, o, s) ==
    IF b.best_out = None \/ o.conf >= b.best_iptm
    THEN [best_out |-> o, best_iptm |-> o.conf, best_seed |-> s]
    ELSE b

\* Lines 261-264, on b = [best_out, best_iptm, best_seed].
SelectCrosslink(b, o, s) ==
    IF b.best_out = None \/ o.conf > b.best_iptm
    THEN [best_out |-> o, best_iptm |-> o.conf, best_seed |-> s]
    ELSE b

\* Lines 248-251, on b = [best_out, best_q_score, best_seed].
SelectRDC(b, q, o, s) ==
    IF b.best_out = None \/ FloatLess(q, b.best_q_score)
    THEN [best_out |-> o, best_q_score |-> q, best_seed |-> s]
    ELSE b

-----------------------------------------------------------------------------
(* main, lines 100-356 *)

ArgSets ==
    {a \in [times : 0..MaxTimes,
            rdc : {"none", "unreadable", "malformed", "ok"},
            relax : BOOLEAN, save_raw_output : BOOLEAN,
            is_multimer : BOOLEAN, chains_file : BOOLEAN,
            bf16 : BOOLEAN, model_device : {CpuDevice, CudaDevice(MemStep)}] :
        a.is_multimer \/ a.chains_file}

InitMainVars ==
    /\ pc = "start"
    /\ args \in ArgSets
    /\ rdc_df = None
    /\ it = -1 /\ seed = 0 /\ cur_seed = None
    /\ batch = None /\ raw_out = None /\ out = None /\ sat = None
    /\ best_out = None /\ best_iptm = 0 /\ best_q_score = Unbound /\ best_seed = None
    /\ model_globals = None /\ model_calls = 0
    /\ files = <<>> /\ aux_files = <<>> /\ cur_protein = None
    /\ plddts = {} /\ ptms = {}
    /\ err = None
    /\ steps = <<>>
IdleMainVars ==
    /\ pc = "idle" /\ args = None /\ rdc_df = None
    /\ it = -1 /\ seed = 0 /\ cur_seed = None
    /\ batch = None /\ raw_out = None /\ out = None /\ sat = None
    /\ best_out = None /\ best_iptm = 0 /\ best_q_score = Unbound /\ best_seed = None
    /\ model_globals = None /\ model_calls = 0
    /\ files = <<>> /\ aux_files = <<>> /\ cur_protein = None
    /\ plddts = {} /\ ptms = {}
    /\ err = None
    /\ steps = <<>>
IdleSelVars == scores = <<>> /\ q_score = Unbound

\* An uncaught exception ends the run.
Raise(type, line, origin) ==
    /\ pc' = "failed"
    /\ err' = [type |-> type, line |-> line, origin |-> origin]

\* Lines 92-98: pd.read_csv raises on a file it cannot read; a row with a
\* missing or non-numeric residue field is read without complaint.
ReadCsvRaises(file) == file = "unreadable"

\* Lines 101-108.
LoadRDC ==
    /\ pc = "start"
    /\ \/ /\ args.rdc = "none"
          /\ pc' = "setup" /\ UNCHANGED <<rdc_df, err>>
       \/ /\ args.rdc # "none" /\ ReadCsvRaises(args.rdc)
          /\ Raise("ValueError", 108, "input")
          /\ UNCHANGED rdc_df
       \/ /\ args.rdc # "none" /\ ~ReadCsvRaises(args.rdc)
          /\ rdc_df' = [tag |-> "df", file |-> args.rdc]
          /\ pc' = "setup" /\ UNCHANGED err
    /\ UNCHANGED <<args, it, seed, cur_seed, batch, raw_out, out, sat, best_out,
                   best_iptm, best_q_score, best_seed, model_globals, model_calls,
                   files, aux_files, cur_protein, plddts, ptms, steps>>

\* Lines 109-153: build the model, load the parameters, initialise the best.
Setup ==
    /\ pc = "setup"
    /\ plddts' = {} /\ ptms' = {}
    /\ cur_seed' = DerivedSeed(DataRandomSeed, 0)
    /\ seed' = 0
    /\ best_out' = None /\ best_iptm' = 0 /\ best_seed' = None
    /\ pc' = "loop"
    /\ UNCHANGED <<args, rdc_df, it, batch, raw_out, out, sat, best_q_score,
                   model_globals, model_calls, files, aux_files, cur_protein, err, steps>>

\* Lines 155-156: the next pass of the for loop, or its end.
ForLoop ==
    /\ pc = "loop"
    /\ \/ /\ it + 1 < args.times
          /\ it' = it + 1
          /\ cur_seed' = DerivedSeed(DataRandomSeed, seed)
          /\ steps' = <<>>
          /\ pc' = "load"
       \/ /\ ~(it + 1 < args.times)
          /\ pc' = "final"
          /\ UNCHANGED <<it, cur_seed, steps>>
    /\ UNCHANGED <<args, rdc_df, seed, batch, raw_out, out, sat, best_out, best_iptm,
                   best_q_score, best_seed, model_globals, model_calls, files,
                   aux_files, cur_protein, plddts, ptms, err>>

\* Lines 158-170 (load_feature_for_one_target, lines 63-91): line 74 opens
\* chains.txt for a multimer; load_and_process may fail.
LoadFeatures ==
    /\ pc = "load"
    /\ \/ /\ args.is_multimer /\ ~args.chains_file
          /\ Raise("FileNotFoundError", 74, "input")
          /\ UNCHANGED <<batch, seed, steps>>
       \/ /\ args.is_multimer => args.chains_file
          /\ Raise("PipelineError", 75, "collaborator")
          /\ UNCHANGED <<batch, seed, steps>>
       \/ /\ args.is_multimer => args.chains_file
          /\ batch' = [tag |-> "batch", src |-> it, seed |-> cur_seed,
                       seq_len |-> TargetSeqLen, normalized |-> FALSE]
          /\ seed' = seed + 1
          /\ steps' = Append(steps, "draw")
          /\ pc' = "chunk" /\ UNCHANGED err
    /\ UNCHANGED <<args, rdc_df, it, cur_seed, raw_out, out, sat, best_out, best_iptm,
                   best_q_score, best_seed, model_globals, model_calls, files,
                   aux_files, cur_protein, plddts, ptms>>

\* Lines 170-178.
SetChunk ==
    /\ pc = "chunk"
    /\ model_globals' = automatic_chunk_size(batch.seq_len, args.model_device, args.bf16)
    /\ steps' = Append(steps, "configure")
    /\ pc' = "invoke"
    /\ UNCHANGED <<args, rdc_df, it, seed, cur_seed, batch, raw_out, out, sat, best_out,
                   best_iptm, best_q_score, best_seed, model_calls, files, aux_files,
                   cur_protein, plddts, ptms, err>>

\* Lines 180-189: raw_out = model(batch).
InvokeModel ==
    /\ pc = "invoke"
    /\ \/ /\ Raise("ModelError", 188, "collaborator")
          /\ UNCHANGED <<raw_out, model_calls, steps>>
       \/ /\ \E c \in Confs :
                raw_out' = [tag |-> "raw", src |-> batch.src, conf |-> c,
                            globals |-> model_globals]
          /\ model_calls' = model_calls + 1
          /\ steps' = Append(steps, "invoke")
          /\ pc' = "normalize" /\ UNCHANGED err
    /\ UNCHANGED <<args, rdc_df, it, seed, cur_seed, batch, out, sat, best_out,
                   best_iptm, best_q_score, best_seed, model_globals, files, aux_files,
                   cur_protein, plddts, ptms>>

\* Lines 191-215: keep the final_* and score fields (or everything), drop the
\* recycling dimension, cast to float, copy to numpy arrays.
Normalize ==
    /\ pc = "normalize"
    /\ out' = [tag |-> "out", src |-> raw_out.src, conf |-> raw_out.conf,
               all_fields |-> args.save_raw_output,
               final_atom_positions |-> "ndarray"]
    /\ raw_out' = None
    /\ batch' = [batch EXCEPT !.normalized = TRUE]
    /\ steps' = Append(steps, "normalize")
    /\ pc' = "score"
    /\ UNCHANGED <<args, rdc_df, it, seed, cur_seed, sat, best_out, best_iptm,
                   best_q_score, best_seed, model_globals, model_calls, files,
                   aux_files, cur_protein, plddts, ptms, err>>

\* Lines 217-246: q_score = compute_q_factor(out["final_atom_positions"][..., :],
\* rdc_df); the argument is the numpy array of line 212, so line 221 raises
\* and lines 222-251 are not reached from main (SpecQ and SpecSel apply them
\* to inputs of their own).
ScoreRDC ==
    /\ pc = "score"
    /\ rdc_df # None
    /\ DetachRaises([kind |-> out.final_atom_positions])
    /\ Raise("AttributeError", 221, "scoring")
    /\ UNCHANGED <<args, rdc_df, it, seed, cur_seed, batch, raw_out, out, sat, best_out,
                   best_iptm, best_q_score, best_seed, model_globals, model_calls,
                   files, aux_files, cur_protein, plddts, ptms, steps>>

\* Lines 253-259: the crosslink satisfaction is computed and printed.
ScoreCrosslink ==
    /\ pc = "score"
    /\ rdc_df = None
    /\ \E total_xl \in 0..MaxXL : \E satisfied \in 0..total_xl :
          sat' = SatRatio(satisfied, total_xl)
    /\ steps' = Append(steps, "score")
    /\ pc' = "select"
    /\ UNCHANGED <<args, rdc_df, it, seed, cur_seed, batch, raw_out, out, best_out,
                   best_iptm, best_q_score, best_seed, model_globals, model_calls,
                   files, aux_files, cur_protein, plddts, ptms, err>>

\* Lines 261-264.
SelectBest ==
    /\ pc = "select"
    /\ LET b == SelectCrosslink([best_out |-> best_out, best_iptm |-> best_iptm,
                                 best_seed |-> best_seed], out, cur_seed)
       IN  /\ best_out' = b.best_out
           /\ best_iptm' = b.best_iptm
           /\ best_seed' = b.best_seed
    /\ steps' = Append(steps, "select")
    /\ pc' = "write"
    /\ UNCHANGED <<args, rdc_df, it, seed, cur_seed, batch, raw_out, out, sat,
                   best_q_score, model_globals, model_calls, files, aux_files,
                   cur_protein, plddts, ptms, err>>

\* protein.from_prediction(features, result, ...): which batch, which output.
FromPrediction(features, result) ==
    [tag |-> "protein", features |-> features.src, result |-> result.src]

SampleName(s, o) == [kind |-> "sample", seed |-> s, iptm |-> Format3(o.conf)]
BestName(s, o) == [kind |-> "best", seed |-> s, iptm |-> Format3(o.conf)]

\* A slip: the sample is written only when it is the running best.
WriteSampleFiles_best_only(fs, s, o, prot, best) ==
    IF o = best THEN Append(fs, [name |-> SampleName(s, o), protein |-> prot]) ELSE fs

\* Lines 298-303.
WriteSampleFiles(fs, s, o, prot, best) ==
    Append(fs, [name |-> SampleName(s, o), protein |-> prot])

\* Lines 287-308: the iteration's structure file, and its raw outputs.
WriteSample ==
    /\ pc = "write"
    /\ cur_protein' = FromPrediction(batch, out)
    /\ files' = WriteSampleFiles(files, cur_seed, out, FromPrediction(batch, out), best_out)
    /\ aux_files' = IF args.save_raw_output
                      THEN Append(aux_files, [kind |-> "pkl", of |-> SampleName(cur_seed, out)])
                      ELSE aux_files
    /\ steps' = Append(steps, "write")
    /\ pc' = "loop"
    /\ UNCHANGED <<args, rdc_df, it, seed, cur_seed, batch, raw_out, out, sat, best_out,
                   best_iptm, best_q_score, best_seed, model_globals, model_calls,
                   plddts, ptms, err>>

\* Lines 312-330: out = best_out; out["plddt"] on None is a TypeError.
Finalize ==
    /\ pc = "final"
    /\ out' = best_out
    /\ \/ /\ best_out = None
          /\ Raise("TypeError", 314, "main")
          /\ UNCHANGED <<cur_protein, plddts, ptms>>
       \/ /\ best_out # None
          /\ cur_protein' = FromPrediction(batch, best_out)
          /\ plddts' = {BestName(best_seed, best_out)}
          /\ ptms' = IF args.is_multimer THEN {BestName(best_seed, best_out)} ELSE {}
          /\ pc' = "relax" /\ UNCHANGED err
    /\ UNCHANGED <<args, rdc_df, it, seed, cur_seed, batch, raw_out, sat, best_out,
                   best_iptm, best_q_score, best_seed, model_globals, model_calls,
                   files, aux_files, steps>>

\* Lines 332-346: the best structure is written inside "if args.relax".
Relax ==
    /\ pc = "relax"
    /\ \/ /\ args.relax
          /\ Raise("RelaxError", 341, "collaborator")
          /\ UNCHANGED files
       \/ /\ args.relax
          /\ files' = Append(files, [name |-> BestName(best_seed, out),
                                     protein |-> cur_protein])
          /\ pc' = "json" /\ UNCHANGED err
       \/ /\ ~args.relax
          /\ pc' = "json" /\ UNCHANGED <<files, err>>
    /\ UNCHANGED <<args, rdc_df, it, seed, cur_seed, batch, raw_out, out, sat, best_out,
                   best_iptm, best_q_score, best_seed, model_globals, model_calls,
                   aux_files, cur_protein, plddts, ptms, steps>>

\* Lines 349-356.
WriteJSON ==
    /\ pc = "json"
    /\ aux_files' =
          LET one == Append(aux_files, [kind |-> "plddt.json", keys |-> plddts])
          IN  IF ptms # {} THEN Append(one, [kind |-> "ptm.json", keys |-> ptms]) ELSE one
    /\ pc' = "done"
    /\ UNCHANGED <<args, rdc_df, it, seed, cur_seed, batch, raw_out, out, sat, best_out,
                   best_iptm, best_q_score, best_seed, model_globals, model_calls,
                   files, cur_protein, plddts, ptms, err, steps>>

Init == InitMainVars /\ IdleSelVars /\ IdleQVars /\ IdleChunkVars
Next ==
    \/ (LoadRDC /\ UNCHANGED <<selVars, qVars, ckVars>>)
    \/ (Setup /\ UNCHANGED <<selVars, qVars, ckVars>>)
    \/ (ForLoop /\ UNCHANGED <<selVars, qVars, ckVars>>)
    \/ (LoadFeatures /\ UNCHANGED <<selVars, qVars, ckVars>>)
    \/ (SetChunk /\ UNCHANGED <<selVars, qVars, ckVars>>)
    \/ (InvokeModel /\ UNCHANGED <<selVars, qVars, ckVars>>)
    \/ (Normalize /\ UNCHANGED <<selVars, qVars, ckVars>>)
    \/ (ScoreRDC /\ UNCHANGED <<selVars, qVars, ckVars>>)
    \/ (ScoreCrosslink /\ UNCHANGED <<selVars, qVars, ckVars>>)
    \/ (SelectBest /\ UNCHANGED <<selVars, qVars, ckVars>>)
    \/ (WriteSample /\ UNCHANGED <<selVars, qVars, ckVars>>)
    \/ (Finalize /\ UNCHANGED <<selVars, qVars, ckVars>>)
    \/ (Relax /\ UNCHANGED <<selVars, qVars, ckVars>>)
    \/ (WriteJSON /\ UNCHANGED <<selVars, qVars, ckVars>>)
Spec == Init /\ [][Next]_vars

InitQ == InitQVars /\ IdleMainVars /\ IdleSelVars /\ IdleChunkVars
NextQ ==
    \/ (QDetach /\ UNCHANGED <<mainVars, selVars, ckVars>>)
    \/ (QRow /\ UNCHANGED <<mainVars, selVars, ckVars>>)
    \/ (QReduce /\ UNCHANGED <<mainVars, selVars, ckVars>>)
SpecQ == InitQ /\ [][NextQ]_vars

InitChunk == InitChunkVars /\ IdleMainVars /\ IdleSelVars /\ IdleQVars
NextChunk ==
    \/ (CkCall /\ UNCHANGED <<mainVars, selVars, qVars>>)
    \/ (CkLonger /\ UNCHANGED <<mainVars, selVars, qVars>>)
    \/ (CkLessMem /\ UNCHANGED <<mainVars, selVars, qVars>>)
SpecChunk == InitChunk /\ [][NextChunk]_vars

-----------------------------------------------------------------------------
(* Lines 245-264 applied to sequences of scores *)

\* Q-factors handed to line 248: finite ones and the infinity of line 241.
QScores == {Fin(k, 1) : k \in 0..MaxQ} \cup {Inf}

InitSelVars ==
    /\ pc = "draw"
    /\ args = None
    /\ rdc_df \in {None, [tag |-> "df", file |-> "ok"]}
    /\ it = -1 /\ seed = 0 /\ cur_seed = DerivedSeed(DataRandomSeed, 0)
    /\ batch = None /\ raw_out = None /\ out = None /\ sat = None
    /\ best_out = None /\ best_iptm = 0 /\ best_q_score = Unbound /\ best_seed = None
    /\ model_globals = None /\ model_calls = 0
    /\ files = <<>> /\ aux_files = <<>> /\ cur_protein = None
    /\ plddts = {} /\ ptms = {}
    /\ err = None
    /\ steps = <<>>
    /\ scores = <<>> /\ q_score = Unbound

\* One more iteration's sample and its scores reach line 245 / 254.
SelDraw ==
    /\ pc = "draw"
    /\ it + 1 < MaxTimes
    /\ it' = it + 1
    /\ cur_seed' = DerivedSeed(DataRandomSeed, seed)
    /\ seed' = seed + 1
    /\ \E c \in Confs :
          out' = [tag |-> "out", src |-> it + 1, conf |-> c, all_fields |-> FALSE,
                  final_atom_positions |-> "ndarray"]
    /\ \/ /\ rdc_df # None
          /\ q_score' \in QScores
          /\ sat' = sat
       \/ /\ rdc_df = None
          /\ \E total_xl \in 0..MaxXL : \E satisfied \in 0..total_xl :
                sat' = SatRatio(satisfied, total_xl)
          /\ q_score' = q_score
    /\ pc' = "compare"
    /\ UNCHANGED <<args, rdc_df, batch, raw_out, best_out, best_iptm, best_q_score,
                   best_seed, model_globals, model_calls, files, aux_files,
                   cur_protein, plddts, ptms, err, steps, scores>>

\* Lines 248-251.
SelCompareRDC ==
    /\ pc = "compare"
    /\ rdc_df # None
    /\ LET b == SelectRDC([best_out |-> best_out, best_q_score |-> best_q_score,
                           best_seed |-> best_seed], q_score, out, cur_seed)
       IN  /\ best_out' = b.best_out
           /\ best_q_score' = b.best_q_score
           /\ best_seed' = b.best_seed
           /\ scores' = Append(scores, [conf |-> out.conf, q |-> q_score, sat |-> sat,
                                        became_best |-> b.best_out = out])
    /\ pc' = "draw"
    /\ UNCHANGED <<args, rdc_df, it, seed, cur_seed, batch, raw_out, out, sat, best_iptm,
                   model_globals, model_calls, files, aux_files, cur_protein, plddts,
                   ptms, err, steps, q_score>>

\* Lines 261-264.
SelCompareCrosslink ==
    /\ pc = "compare"
    /\ rdc_df = None
    /\ LET b == SelectCrosslink([best_out |-> best_out, best_iptm |-> best_iptm,
                                 best_seed |-> best_seed], out, cur_seed)
       IN  /\ best_out' = b.best_out
           /\ best_iptm' = b.best_iptm
           /\ best_seed' = b.best_seed
           /\ scores' = Append(scores, [conf |-> out.conf, q |-> q_score, sat |-> sat,
                                        became_best |-> b.best_out = out])
    /\ pc' = "draw"
    /\ UNCHANGED <<args, rdc_df, it, seed, cur_seed, batch, raw_out, out, sat,
                   best_q_score, model_globals, model_calls, files, aux_files,
                   cur_protein, plddts, ptms, err, steps, q_score>>

InitSel == InitSelVars /\ IdleQVars /\ IdleChunkVars
NextSel ==
    \/ (SelDraw /\ UNCHANGED <<qVars, ckVars>>)
    \/ (SelCompareRDC /\ UNCHANGED <<qVars, ckVars>>)
    \/ (SelCompareCrosslink /\ UNCHANGED <<qVars, ckVars>>)
SpecSel == InitSel /\ [][NextSel]_vars

-----------------------------------------------------------------------------
(* Properties *)

\* C1 (SpecSel): the running best never gets worse from one iteration to the
\* next: without an RDC table best_iptm never decreases, with one
\* best_q_score never increases.
C1_BestNeverWorse ==
    [][(best_out # None)
         => IF rdc_df = None
            THEN best_iptm' >= best_iptm
            ELSE ~FloatLess(best_q_score, best_q_score')]_vars
\* A later sample replaced the best and another later sample did not.
C1_Witness ==
    /\ rdc_df = None
    /\ \E i, j \in 2..Len(scores) : scores[i].became_best /\ ~scores[j].became_best

\* The selection score of sample i is optimal among the samples compared so far.
Optimal(i) ==
    \A j \in 1..Len(scores) :
        IF rdc_df = None THEN scores[j].conf <= scores[i].conf
        ELSE ~FloatLess(scores[j].q, scores[i].q)
EarliestOptimal(i) == Optimal(i) /\ \A j \in 1..(i - 1) : ~Optimal(j)

\* C2 (SpecSel): after any number of compared iterations the retained sample
\* and seed are those of the earliest iteration whose selection score is
\* optimal (highest confidence without an RDC table, lowest Q-factor with
\* one); the satisfaction ratio (NaN included) and, in RDC mode, the
\* confidence play no part.
C2_BestIsEarliestOptimal ==
    (pc = "draw" /\ Len(scores) > 0)
      => \E i \in 1..Len(scores) :
            /\ EarliestOptimal(i)
            /\ best_out.src = i - 1
            /\ best_out.conf = scores[i].conf
            /\ best_seed = DerivedSeed(DataRandomSeed, i - 1)
            /\ rdc_df = None => best_iptm = scores[i].conf
            /\ rdc_df # None => best_q_score = scores[i].q
\* The first of two tied optimal samples is retained, its satisfaction NaN.
C2_Witness ==
    /\ pc = "draw" /\ rdc_df = None /\ Len(scores) = MaxTimes
    /\ \E i, j \in 1..Len(scores) :
          /\ i < j /\ Optimal(i) /\ Optimal(j)
          /\ best_out.src = i - 1
          /\ scores[i].sat.kind = "nan"
          /\ scores[j].sat.kind = "fin"

C4_BestSnapshotConsistent ==
    /\ best_out # None => best_seed = DerivedSeed(DataRandomSeed, best_out.src)
    /\ pc \in {"relax", "json", "done"}
         => /\ cur_protein.result = best_out.src
            /\ cur_protein.features = best_out.src

IsSampleFile(f) == f.name.kind = "sample"
IsBestFile(f) == f.name.kind = "best"
SampleFiles == SelectSeq(files, IsSampleFile)
BestFiles == SelectSeq(files, IsBestFile)
\* The first k files are the structure files of iterations 0..k-1, in order.
SampleFilesOfFirst(k) ==
    /\ Len(SampleFiles) = k
    /\ \A i \in 1..k :
          /\ SampleFiles[i].protein.result = i - 1
          /\ SampleFiles[i].protein.features = i - 1
          /\ SampleFiles[i].name.seed = DerivedSeed(DataRandomSeed, i - 1)
IsJson(f) == f.kind \in {"plddt.json", "ptm.json"}

\* C5 (Spec): a run that completes its N iterations has written one structure
\* file per iteration, then the best sample's structure file under another
\* name and the JSON summary, whatever relax and save_raw_output are.
C5_AllFilesWritten ==
    pc = "done"
      => /\ SampleFilesOfFirst(args.times)
         /\ Len(BestFiles) = 1
         /\ BestFiles[1].protein.result = best_out.src
         /\ \E i \in 1..Len(aux_files) : aux_files[i].kind = "plddt.json"

\* A record the claim calls valid: both atoms known, residue in 1..L.
ValidRow(row) ==
    /\ row.atom1 \in DOMAIN atom_order
    /\ row.atom2 \in DOMAIN atom_order
    /\ row.residue.tag = "int"
    /\ row.residue.v \in 1..NumRes
RECURSIVE ValidIndices(_, _)
ValidIndices(t, n) ==
    IF n = 0 THEN <<>>
    ELSE IF ValidRow(t[n]) THEN Append(ValidIndices(t, n - 1), n)
    ELSE ValidIndices(t, n - 1)

\* C6 (SpecQ): compute_q_factor raises no error, leaves out every record with
\* an unknown atom or a residue outside 1..L, includes every other record,
\* and computes Q from exactly the included ones.
C6_ExactlyValidRecords ==
    /\ q_pc # "raised"
    /\ q_included = ValidIndices(q_table, q_i)
    /\ Len(diffs) = Len(q_included) /\ Len(values) = Len(q_included)
\* The same for a torch tensor argument and integer residue fields only.
C6_OnTensorWithIntegerResidues ==
    (/\ pred_coords # None
     /\ pred_coords.kind = "tensor"
     /\ \A i \in 1..Len(q_table) : q_table[i].residue.tag = "int")
      => /\ q_pc # "raised"
         /\ q_included = ValidIndices(q_table, q_i)

MalformedInput ==
    \/ args.rdc = "malformed"
    \/ args.is_multimer /\ ~args.chains_file

\* C7 (Spec): with a malformed RDC file or a missing chains file the run
\* ends before the first loop iteration and before any model invocation.
C7_InputErrorsBeforeLoop ==
    MalformedInput => (it = -1 /\ model_calls = 0)

\* C8 (Spec): when the feature pipeline or the model fails in iteration k the
\* run is over; exactly the structure files of iterations 0..k-1 exist, the
\* model was invoked k times, and there is no best file and no JSON summary.
C8_FailureLeavesPriorFiles ==
    (pc = "failed" /\ err.origin = "collaborator" /\ err.line \in {75, 188})
      => /\ SampleFilesOfFirst(it)
         /\ Len(files) = it
         /\ model_calls = it
         /\ \A i \in 1..Len(aux_files) : ~IsJson(aux_files[i])
         /\ ~ENABLED Next
\* The model fails in the third iteration, whose predecessors were written
\* although the second did not become the best.
C8_Witness ==
    /\ pc = "failed" /\ err.line = 188 /\ it = 2
    /\ best_out.src = 0
    /\ Len(files) = 2

ChunkPairs ==
    {[chunk_size |-> 256, block_size |-> None],
     [chunk_size |-> 128, block_size |-> None],
     [chunk_size |-> 64, block_size |-> None],
     [chunk_size |-> 32, block_size |-> [tag |-> "int", v |-> 512]],
     [chunk_size |-> 4, block_size |-> [tag |-> "int", v |-> 256]]}
CkMem(in) == get_device_mem(in.device)

\* C9 (SpecChunk): chunk_size is one of 256, 128, 64, 32, 4 with block_size
\* None, None, None, 512, 256; it does not grow when seq_len grows (budget and
\* precision fixed) and changes only at int(1024*factor), int(2048*factor),
\* int(3072*factor), int(4096*factor); it does not grow when the budget
\* shrinks (seq_len and precision fixed); at 40 GB without bf16, 500 gives
\* (256, None) and 5000 gives (4, 256).
C9_ChunkStepFunction ==
    ck_out # None
      => /\ ck_out \in ChunkPairs
         /\ (ck_prev # None /\ ck_prev.in.device = ck_in.device
               /\ ck_prev.in.seq_len = ck_in.seq_len - 1)
              => /\ ck_out.chunk_size <= ck_prev.out.chunk_size
                 /\ ck_out # ck_prev.out
                      => \E base \in {1024, 2048, 3072, 4096} :
                            ck_in.seq_len = IntScaled(base, CkMem(ck_in), ck_in.is_bf16)
         /\ (ck_prev # None /\ ck_prev.in.seq_len = ck_in.seq_len
               /\ CkMem(ck_in) <= CkMem(ck_prev.in))
              => ck_out.chunk_size <= ck_prev.out.chunk_size
         /\ (CkMem(ck_in) = 40 /\ ~ck_in.is_bf16 /\ ck_in.seq_len = 500)
              => ck_out = [chunk_size |-> 256, block_size |-> None]
         /\ (CkMem(ck_in) = 40 /\ ~ck_in.is_bf16 /\ ck_in.seq_len = 5000)
              => ck_out = [chunk_size |-> 4, block_size |-> [tag |-> "int", v |-> 256]]
\* The last switch, from (32, 512) to (4, 256), at 40 GB without bf16.
C9_Witness ==
    /\ ck_out # None /\ ck_prev # None
    /\ CkMem(ck_in) = 40 /\ ~ck_in.is_bf16
    /\ ck_prev.in.seq_len = ck_in.seq_len - 1
    /\ ck_prev.out.chunk_size = 32
    /\ ck_out = [chunk_size |-> 4, block_size |-> [tag |-> "int", v |-> 256]]

IterationOrder == <<"draw", "configure", "invoke", "normalize", "score", "select", "write">>
IsPrefix(s, t) == Len(s) <= Len(t) /\ \A i \in 1..Len(s) : s[i] = t[i]

\* C10 (Spec): with readable inputs and no failing collaborator the run never
\* fails; every iteration takes its steps in the order draw, configure,
\* invoke, normalize, score, select, write, with the seed derived from the
\* 0-based iteration index; and the run ends after exactly `times`
\* iterations with a best sample.
C10_RunsAllIterationsToDone ==
    /\ (pc = "failed" /\ args.rdc \in {"none", "ok"} /\ ~MalformedInput)
         => err.origin = "collaborator"
    /\ IsPrefix(steps, IterationOrder)
    /\ (it >= 0 /\ pc \notin {"start", "setup"}) => cur_seed = DerivedSeed(DataRandomSeed, it)
    /\ pc = "done"
         => /\ model_calls = args.times
            /\ Len(SampleFiles) = args.times
            /\ best_out # None

=============================================================================
